---- MODULE Spec2Model ----
(***************************************************************************)
(* A model of descape (src/src/lib.rs): the scanner to_unescaped_with_mono, *)
(* the EscapeHandler capability, DefaultHandler and its three decoders.     *)
(*                                                                          *)
(* A char is its Unicode code point (a natural number); a str is a sequence *)
(* of chars.  Byte offsets are computed from len_utf8, so that an offset    *)
(* into the input differs from a character count whenever a multi-byte      *)
(* character precedes it.  A u32 is kept as two 16-bit limbs [hi, lo], so   *)
(* that the overflow check of u32::from_str_radix is the one of the code.   *)
(***************************************************************************)
EXTENDS Integers, Sequences, FiniteSets, TLC

VARIABLES
    this,       \* the input text (&'this str), fixed during one call
    handler,    \* which EscapeHandler the call was given
    iter,       \* this.char_indices(): the number of chars already yielded
    seen,       \* the borrowed prefix `seen`
    owned,      \* Option<String>: [some, s]
    result,     \* what the call returned: [kind, str, index]; kind "running" before
    calls       \* the calls of callback.escape, in order, as the handler saw them

vars == <<this, handler, iter, seen, owned, result, calls>>

----------------------------------------------------------------------------
(* Bounds of the model. *)

\* the longest input of the general family
MaxLen == 5
\* the most characters after `\x`, after an octal trigger, after `\u`
MaxHexBody == 3
MaxOctBody == 3
MaxUniBody == 4
\* `\u{` head run `}`: the longest head, and the longest run of one digit
MaxBraceHead == 2
MaxBraceRun == 8
\* the most characters an arbitrary handler takes from the cursor
MaxAdvance == 2

----------------------------------------------------------------------------
(* Characters the source names. *)

Backslash == 92
LowerA == 97
LowerB == 98
LowerT == 116
LowerN == 110
LowerV == 118
LowerF == 102
LowerR == 114
LowerE == 101
Backtick == 96
Quote == 39
DoubleQuote == 34
LowerU == 117
LowerX == 120
OpenBrace == 123
CloseBrace == 125
Zero == 48
UpperT == 84
LowerO == 111
LowerG == 103
LowerP == 112

----------------------------------------------------------------------------
(* char and str primitives of core the source calls. *)

\* char::len_utf8
len_utf8(c) ==
    IF c < 128 THEN 1 ELSE IF c < 2048 THEN 2 ELSE IF c < 65536 THEN 3 ELSE 4

\* str::len of the first k chars of s: the byte offset of the char after them
RECURSIVE ByteOffset(_, _)
ByteOffset(s, k) ==
    IF k = 0 THEN 0 ELSE ByteOffset(s, k - 1) + len_utf8(s[k])

\* str::len
StrLen(s) == ByteOffset(s, Len(s))

\* str::get(..n): the prefix of n bytes, None when n is past the end or inside
\* a char
get(s, n) ==
    LET ks == {k \in 0..Len(s) : ByteOffset(s, k) = n}
    IN  IF ks = {} THEN [some |-> FALSE, s |-> <<>>]
        ELSE [some |-> TRUE, s |-> SubSeq(s, 1, CHOOSE k \in ks : TRUE)]

\* CharIndices::as_str: what the iterator has not yielded yet
as_str(s, it) == SubSeq(s, it + 1, Len(s))

\* char::to_digit(36): 0-9, then a-z and A-Z as 10..35; 36 for any other char
to_digit(c) ==
    IF c >= 48 /\ c <= 57 THEN c - 48
    ELSE IF c >= 97 /\ c <= 122 THEN c - 97 + 10
    ELSE IF c >= 65 /\ c <= 90 THEN c - 65 + 10
    ELSE 36

\* char::is_digit(radix)
is_digit(c, radix) == to_digit(c) < radix

\* the digit loop of u32::from_str_radix: checked_mul and checked_add on a u32
\* held as hi * 65536 + lo
RECURSIVE ParseDigits(_, _, _, _)
ParseDigits(digits, radix, hi, lo) ==
    IF digits = <<>> THEN [ok |-> TRUE, hi |-> hi, lo |-> lo]
    ELSE IF ~is_digit(Head(digits), radix) THEN [ok |-> FALSE, hi |-> 0, lo |-> 0]
    ELSE LET m == lo * radix + to_digit(Head(digits))
             nhi == hi * radix + (m \div 65536)
         IN  IF nhi > 65535 THEN [ok |-> FALSE, hi |-> 0, lo |-> 0]
             ELSE ParseDigits(Tail(digits), radix, nhi, m % 65536)

\* u32::from_str_radix: empty is an error; one leading `+` is taken as a sign
\* when digits follow it; `-` is no sign of an unsigned type
from_str_radix(src, radix) ==
    IF src = <<>> THEN [ok |-> FALSE, hi |-> 0, lo |-> 0]
    ELSE IF Head(src) = 43 \/ Head(src) = 45
    THEN IF Len(src) = 1 THEN [ok |-> FALSE, hi |-> 0, lo |-> 0]
         ELSE IF Head(src) = 43 THEN ParseDigits(Tail(src), radix, 0, 0)
         ELSE ParseDigits(src, radix, 0, 0)
    ELSE ParseDigits(src, radix, 0, 0)

\* from_u32 without the surrogate check
from_u32_no_surrogates(hi, lo) ==
    IF hi > 16 THEN [some |-> FALSE, c |-> 0]
    ELSE [some |-> TRUE, c |-> hi * 65536 + lo]

\* char::from_u32: None for a surrogate and for a value above 0x10FFFF
from_u32(hi, lo) ==
    IF hi > 16 \/ (hi = 0 /\ lo >= 55296 /\ lo <= 57343)
    THEN [some |-> FALSE, c |-> 0]
    ELSE [some |-> TRUE, c |-> hi * 65536 + lo]

----------------------------------------------------------------------------
(* The decoders of DefaultHandler. *)

\* CharIndices::next called n times
Advance(s, it, n) == IF it + n > Len(s) THEN Len(s) ELSE it + n

NoChar == [some |-> FALSE, c |-> 0, skip |-> 0]

\* unescape_hex: the char of the two bytes after `\x`; the cursor is left alone
unescape_hex(s, it) ==
    LET two == get(as_str(s, it), 2)
        codepoint == IF two.some THEN from_str_radix(two.s, 16)
                     ELSE [ok |-> FALSE, hi |-> 0, lo |-> 0]
    IN  IF codepoint.ok THEN from_u32(codepoint.hi, codepoint.lo)
        ELSE [some |-> FALSE, c |-> 0]

\* the index of the first CloseBrace of s, which holds one
RECURSIVE FindBrace(_)
FindBrace(s) == IF Head(s) = CloseBrace THEN 0 ELSE 1 + FindBrace(Tail(s))

\* str::find('}'): the byte offset of the first `}` of s
find_brace(s) ==
    IF \E i \in 1..Len(s) : s[i] = CloseBrace
    THEN [some |-> TRUE, at |-> ByteOffset(s, FindBrace(s))]
    ELSE [some |-> FALSE, at |-> 0]

\* unescape_unicode: the char and the number of chars the caller has to skip;
\* used is the number of chars the function itself took from the cursor
unescape_unicode(s, it) ==
    LET string == as_str(s, it)
    IN  IF string = <<>> THEN [r |-> NoChar, used |-> 0]
        ELSE IF Head(string) = OpenBrace
        THEN LET end == find_brace(Tail(string))
                 \* &string[1 ..= end]
                 num == get(Tail(string), end.at)
                 codepoint == IF end.some /\ num.some THEN from_str_radix(num.s, 16)
                              ELSE [ok |-> FALSE, hi |-> 0, lo |-> 0]
                 v == from_u32(codepoint.hi, codepoint.lo)
             IN  IF codepoint.ok /\ v.some
                 THEN [r |-> [some |-> TRUE, c |-> v.c, skip |-> end.at + 1], used |-> 1]
                 ELSE [r |-> NoChar, used |-> 1]
        ELSE LET next_four == get(string, 4)
                 codepoint == IF next_four.some THEN from_str_radix(next_four.s, 16)
                              ELSE [ok |-> FALSE, hi |-> 0, lo |-> 0]
                 v == from_u32(codepoint.hi, codepoint.lo)
             IN  IF codepoint.ok /\ v.some
                 THEN [r |-> [some |-> TRUE, c |-> v.c, skip |-> 3], used |-> 1]
                 ELSE [r |-> NoChar, used |-> 1]

\* 8u32.pow(end) for the end unescape_oct computes
Pow8(end) == IF end = 0 THEN 1 ELSE IF end = 1 THEN 8 ELSE 64

\* OctRun with take(1): one digit after the trigger at most
OctRunOne(str) ==
    IF Len(str) >= 1 /\ is_digit(str[1], 8) THEN 1 ELSE 0

\* iter.clone().take(2).take_while(is_digit(8)).enumerate().last(): the number
\* of octal digits at the head of the next two chars
OctRun(str) ==
    IF Len(str) >= 1 /\ is_digit(str[1], 8)
    THEN IF Len(str) >= 2 /\ is_digit(str[2], 8) THEN 2 ELSE 1
    ELSE 0

\* unescape_oct: chr is the trigger, the first digit
unescape_oct(chr, s, it) ==
    LET str == as_str(s, it)
        end == OctRun(str)
        num == get(str, end).s
        rest == IF num = <<>> THEN [ok |-> TRUE, hi |-> 0, lo |-> 0]
                ELSE from_str_radix(num, 8)
        v == from_u32(rest.hi, rest.lo + (chr - Zero) * Pow8(end))
    IN  IF rest.ok /\ v.some THEN [some |-> TRUE, c |-> v.c, skip |-> end]
        ELSE NoChar

----------------------------------------------------------------------------
(* Handlers.  An outcome is what one call of escape did: res is "Some" for  *)
(* Ok(Some(c)), "None" for Ok(None), "Err" for Err(()); iter is the cursor  *)
(* as the handler left it.                                                  *)

Replace(c, it) == [res |-> "Some", c |-> c, iter |-> it]
Delete(it) == [res |-> "None", c |-> 0, iter |-> it]
Fail(it) == [res |-> "Err", c |-> 0, iter |-> it]

\* SimpleEscape with the results of `\v` and `\f` exchanged
SimpleEscapeSwapped(chr) ==
    CASE chr = LowerA -> 7
      [] chr = LowerB -> 8
      [] chr = LowerT -> 9
      [] chr = LowerN -> 10
      [] chr = LowerV -> 12
      [] chr = LowerF -> 11
      [] chr = LowerR -> 13
      [] chr = LowerE -> 27
      [] chr = Backtick -> Backtick
      [] chr = Quote -> Quote
      [] chr = DoubleQuote -> DoubleQuote
      [] chr = Backslash -> Backslash
      [] OTHER -> -1

\* the arms of DefaultHandler::escape that only look at chr
SimpleEscape(chr) ==
    CASE chr = LowerA -> 7
      [] chr = LowerB -> 8
      [] chr = LowerT -> 9
      [] chr = LowerN -> 10
      [] chr = LowerV -> 11
      [] chr = LowerF -> 12
      [] chr = LowerR -> 13
      [] chr = LowerE -> 27
      [] chr = Backtick -> Backtick
      [] chr = Quote -> Quote
      [] chr = DoubleQuote -> DoubleQuote
      [] chr = Backslash -> Backslash
      [] OTHER -> -1

\* DefaultHandler::escape
DefaultHandler(chr, s, it) ==
    IF SimpleEscape(chr) >= 0 THEN Replace(SimpleEscape(chr), it)
    ELSE IF chr = LowerU
    THEN LET u == unescape_unicode(s, it)
         IN  IF u.r.some THEN Replace(u.r.c, Advance(s, it + u.used, u.r.skip))
             ELSE Fail(it + u.used)
    ELSE IF chr = LowerX
    THEN LET res == unescape_hex(s, it)
         IN  IF res.some THEN Replace(res.c, Advance(s, it, 2)) ELSE Fail(it)
    ELSE IF is_digit(chr, 8)
    THEN LET o == unescape_oct(chr, s, it)
         IN  IF o.some THEN Replace(o.c, Advance(s, it, o.skip)) ELSE Fail(it)
    ELSE Fail(it)

\* custom_esc of tests/test.rs
custom_esc(chr, s, it) ==
    IF chr = UpperT
    THEN IF it >= Len(s) THEN Fail(it)
         ELSE IF s[it + 1] = LowerA THEN Replace(LowerG, it + 1)
         ELSE IF s[it + 1] = LowerO THEN Replace(LowerP, it + 1)
         ELSE Fail(it + 1)
    ELSE Delete(it)

\* the chars an arbitrary handler answers with: one of one byte, one of three
AnyChars == {LowerG, 8364}

\* any implementor of EscapeHandler: it takes up to MaxAdvance chars from the
\* cursor and answers Ok(Some(c)), Ok(None) or Err(())
AnyHandler(s, it) ==
    UNION { {Replace(c, Advance(s, it, n)) : c \in AnyChars}
            \cup {Delete(Advance(s, it, n)), Fail(Advance(s, it, n))}
          : n \in 0..MaxAdvance }

Handlers == {"DefaultHandler", "custom_esc", "any"}

\* callback.escape(index, chr, &mut iter): the outcomes handler h can give
escape(h, chr, s, it) ==
    CASE h = "DefaultHandler" -> {DefaultHandler(chr, s, it)}
      [] h = "custom_esc" -> {custom_esc(chr, s, it)}
      [] OTHER -> AnyHandler(s, it)

----------------------------------------------------------------------------
(* The inputs the model runs the scanner on. *)

\* every str of at most n chars of alphabet
RECURSIVE Strs(_, _)
Strs(alphabet, n) ==
    IF n = 0 THEN {<<>>}
    ELSE LET shorter == Strs(alphabet, n - 1)
         IN  shorter \cup {Append(s, c) : s \in shorter, c \in alphabet}

\* n times the char c
RECURSIVE Run(_, _)
Run(c, n) == IF n = 0 THEN <<>> ELSE <<c>> \o Run(c, n - 1)

\* \ T a Z and a multi-byte char, e-acute (2 bytes)
GenAlpha == {Backslash, UpperT, LowerA, 90, 233}
\* 0 9 a F G + - e-acute and the backslash
HexAlpha == {Zero, 57, LowerA, 70, 71, 43, 45, 233, Backslash}
\* 0 1 7 8 + e-acute
OctAlpha == {Zero, 49, 55, 56, 43, 233}
\* 0 D 8 + { } e-acute
UniAlpha == {Zero, 68, 56, 43, OpenBrace, CloseBrace, 233}
\* 0 1 D 8 F + G
BraceAlpha == {Zero, 49, 68, 56, 70, 43, 71}

\* what may precede an escape: nothing, or a 2-byte char
Prefixes == {<<>>, <<233>>}

GeneralInputs == Strs(GenAlpha, MaxLen)
HexInputs ==
    {pre \o <<Backslash, LowerX>> \o body :
        pre \in Prefixes, body \in Strs(HexAlpha, MaxHexBody)}
OctInputs ==
    {<<Backslash>> \o body : body \in Strs(OctAlpha, MaxOctBody + 1) \ {<<>>}}
UniInputs ==
    {<<Backslash, LowerU>> \o body : body \in Strs(UniAlpha, MaxUniBody)}
BraceInputs ==
    {<<Backslash, LowerU, OpenBrace>> \o head \o Run(c, n) \o close :
        head \in Strs(BraceAlpha, MaxBraceHead), c \in {Zero, 70},
        n \in 0..MaxBraceRun,
        close \in {<<>>, <<CloseBrace>>, <<CloseBrace, Zero>>}}
\* a backslash and one trigger: every ASCII char and two multi-byte ones
TableInputs ==
    {pre \o <<Backslash, chr>> \o post :
        pre \in Prefixes, chr \in (0..127) \cup {233, 8364}, post \in {<<>>, <<Zero>>}}

DefaultInputs == HexInputs \cup OctInputs \cup UniInputs \cup BraceInputs \cup TableInputs

----------------------------------------------------------------------------
(* to_unescaped_with_mono: one action for each way through the loop body.   *)

Running == [kind |-> "running", str |-> <<>>, index |-> 0]
Ok(kind, s) == [kind |-> kind, str |-> s, index |-> 0]
Err(index) == [kind |-> "Err", str |-> <<>>, index |-> index]

Init ==
    /\ \/ this \in GeneralInputs /\ handler \in Handlers
       \/ this \in DefaultInputs /\ handler = "DefaultHandler"
    /\ iter = 0
    /\ seen = <<>>
    /\ owned = [some |-> FALSE, s |-> <<>>]
    /\ result = Running
    /\ calls = <<>>

\* owned.get_or_insert_with(|| seen.to_string())
get_or_insert_with(o, s) == IF o.some THEN o ELSE [some |-> TRUE, s |-> s]

\* the record of one call of callback.escape(index, chr, &mut iter)
Call(index, chr, it, out) ==
    [index |-> index, chr |-> chr, iter |-> it,
     res |-> out.res, c |-> out.c, after |-> out.iter]

\* Literal that allocates owned at the first char instead of extending seen
LiteralEager ==
    /\ result.kind = "running"
    /\ iter < Len(this)
    /\ this[iter + 1] # Backslash
    /\ owned' = [some |-> TRUE,
                 s |-> Append(get_or_insert_with(owned, seen).s, this[iter + 1])]
    /\ iter' = iter + 1
    /\ UNCHANGED <<this, handler, seen, result, calls>>

\* chr != '\\': push it on owned, or extend seen
Literal ==
    /\ result.kind = "running"
    /\ iter < Len(this)
    /\ LET index == ByteOffset(this, iter)
           chr == this[iter + 1]
       IN  /\ chr # Backslash
           /\ IF owned.some
              THEN /\ owned' = [owned EXCEPT !.s = Append(@, chr)]
                   /\ UNCHANGED seen
              ELSE /\ seen' = get(this, index + len_utf8(chr)).s
                   /\ UNCHANGED owned
    /\ iter' = iter + 1
    /\ UNCHANGED <<this, handler, result, calls>>

\* EscapeReplace that resumes after the trigger, whatever the handler took
EscapeReplaceResumesAfterTrigger ==
    /\ result.kind = "running"
    /\ iter + 1 < Len(this)
    /\ this[iter + 1] = Backslash
    /\ LET index == ByteOffset(this, iter)
           chr == this[iter + 2]
       IN  \E out \in escape(handler, chr, this, iter + 2) :
              /\ out.res = "Some"
              /\ owned' = [some |-> TRUE,
                           s |-> Append(get_or_insert_with(owned, seen).s, out.c)]
              /\ iter' = iter + 2
              /\ calls' = Append(calls, Call(index, chr, iter + 2, out))
    /\ UNCHANGED <<this, handler, seen, result>>

\* a backslash and a char after it, and the handler answers Ok(Some(res))
EscapeReplace ==
    /\ result.kind = "running"
    /\ iter + 1 < Len(this)
    /\ this[iter + 1] = Backslash
    /\ LET index == ByteOffset(this, iter)
           chr == this[iter + 2]
       IN  \E out \in escape(handler, chr, this, iter + 2) :
              /\ out.res = "Some"
              /\ owned' = [some |-> TRUE,
                           s |-> Append(get_or_insert_with(owned, seen).s, out.c)]
              /\ iter' = out.iter
              /\ calls' = Append(calls, Call(index, chr, iter + 2, out))
    /\ UNCHANGED <<this, handler, seen, result>>

\* EscapeDelete that allocates owned only when there is a char to push
EscapeDeleteLazy ==
    /\ result.kind = "running"
    /\ iter + 1 < Len(this)
    /\ this[iter + 1] = Backslash
    /\ LET index == ByteOffset(this, iter)
           chr == this[iter + 2]
       IN  \E out \in escape(handler, chr, this, iter + 2) :
              /\ out.res = "None"
              /\ iter' = out.iter
              /\ calls' = Append(calls, Call(index, chr, iter + 2, out))
    /\ UNCHANGED <<this, handler, seen, owned, result>>

\* a backslash and a char after it, and the handler answers Ok(None)
EscapeDelete ==
    /\ result.kind = "running"
    /\ iter + 1 < Len(this)
    /\ this[iter + 1] = Backslash
    /\ LET index == ByteOffset(this, iter)
           chr == this[iter + 2]
       IN  \E out \in escape(handler, chr, this, iter + 2) :
              /\ out.res = "None"
              /\ owned' = get_or_insert_with(owned, seen)
              /\ iter' = out.iter
              /\ calls' = Append(calls, Call(index, chr, iter + 2, out))
    /\ UNCHANGED <<this, handler, seen, result>>

\* EscapeFail that reports owned.len(), as the trailing backslash does
EscapeFailOwnedLen ==
    /\ result.kind = "running"
    /\ iter + 1 < Len(this)
    /\ this[iter + 1] = Backslash
    /\ LET index == ByteOffset(this, iter)
           chr == this[iter + 2]
       IN  \E out \in escape(handler, chr, this, iter + 2) :
              /\ out.res = "Err"
              /\ owned' = get_or_insert_with(owned, seen)
              /\ iter' = out.iter
              /\ calls' = Append(calls, Call(index, chr, iter + 2, out))
              /\ result' = Err(StrLen(owned'.s))
    /\ UNCHANGED <<this, handler, seen>>

\* a backslash and a char after it, and the handler answers Err(())
EscapeFail ==
    /\ result.kind = "running"
    /\ iter + 1 < Len(this)
    /\ this[iter + 1] = Backslash
    /\ LET index == ByteOffset(this, iter)
           chr == this[iter + 2]
       IN  \E out \in escape(handler, chr, this, iter + 2) :
              /\ out.res = "Err"
              /\ owned' = get_or_insert_with(owned, seen)
              /\ iter' = out.iter
              /\ calls' = Append(calls, Call(index, chr, iter + 2, out))
              /\ result' = Err(index)
    /\ UNCHANGED <<this, handler, seen>>

\* a backslash and nothing after it: Err(InvalidEscape::new(owned.len()))
TrailingBackslash ==
    /\ result.kind = "running"
    /\ iter + 1 = Len(this)
    /\ this[iter + 1] = Backslash
    /\ owned' = get_or_insert_with(owned, seen)
    /\ iter' = iter + 1
    /\ result' = Err(StrLen(owned'.s))
    /\ UNCHANGED <<this, handler, seen, calls>>

\* the iterator is exhausted: match owned
Return ==
    /\ result.kind = "running"
    /\ iter = Len(this)
    /\ result' = IF owned.some THEN Ok("Owned", owned.s) ELSE Ok("Borrowed", this)
    /\ UNCHANGED <<this, handler, iter, seen, owned, calls>>

Next ==
    \/ Literal
    \/ EscapeReplace
    \/ EscapeDelete
    \/ EscapeFail
    \/ TrailingBackslash
    \/ Return

Spec == Init /\ [][Next]_vars

----------------------------------------------------------------------------
(* What the claims speak of, stated without the decoders above. *)

Done == result.kind # "running"
Succeeded == result.kind \in {"Borrowed", "Owned"}
HasBackslash(s) == \E i \in 1..Len(s) : s[i] = Backslash
Default(k) == handler = "DefaultHandler" /\ k \in 1..Len(calls)

\* an ASCII hex digit, 0-9 a-f A-F, and its value
IsHex(c) == c \in (48..57) \cup (97..102) \cup (65..70)
HexVal(c) == IF c <= 57 THEN c - 48 ELSE IF c >= 97 THEN c - 87 ELSE c - 55
IsOct(c) == c \in 48..55

\* the base-16 value of a run of hex digits
RECURSIVE HexValue(_)
HexValue(ds) ==
    IF ds = <<>> THEN 0 ELSE 16 * HexValue(SubSeq(ds, 1, Len(ds) - 1)) + HexVal(ds[Len(ds)])

\* a run of digits without its leading zeros
RECURSIVE Significant(_)
Significant(ds) ==
    IF ds # <<>> /\ Head(ds) = Zero THEN Significant(Tail(ds)) ELSE ds

\* the value of the hex digits ds is no Unicode scalar value: seven digits or
\* more are above 0x10FFFF whatever they are
NonScalar(ds) ==
    \/ Len(Significant(ds)) > 6
    \/ LET v == HexValue(Significant(ds))
       IN  v > 1114111 \/ (v >= 55296 /\ v <= 57343)

\* the char positions of the first `}` after position p, none when there is none
Closing(p) == {j \in p + 1..Len(this) :
                  this[j] = CloseBrace /\ \A i \in p + 1..j - 1 : this[i] # CloseBrace}

\* the escape whose trigger is followed by this[p + 1] has the shape {H..H}
BraceShape(p) ==
    /\ p + 1 <= Len(this)
    /\ this[p + 1] = OpenBrace
    /\ \E j \in Closing(p + 1) :
          j > p + 2 /\ \A i \in p + 2..j - 1 : IsHex(this[i])
BraceDigits(p) == SubSeq(this, p + 2, (CHOOSE j \in Closing(p + 1) : TRUE) - 1)

\* the escape whose trigger is followed by this[p + 1] has the shape HHHH
FourShape(p) ==
    /\ p + 4 <= Len(this)
    /\ \A i \in p + 1..p + 4 : IsHex(this[i])
FourDigits(p) == SubSeq(this, p + 1, p + 4)

\* call k is the escape that starts with the backslash at char position
\* calls[k].iter - 1: the handler got that backslash's byte offset, the char
\* after it as trigger and the cursor right after the trigger
StartsAtBackslash(k) ==
    LET p == calls[k].iter - 2
    IN  /\ p >= 0
        /\ this[p + 1] = Backslash
        /\ calls[k].chr = this[p + 2]
        /\ calls[k].index = ByteOffset(this, p)

----------------------------------------------------------------------------
(* C1: an input that ends in a backslash with nothing after it, all escapes *)
(* before it resolved and none of them reaching that backslash, fails with  *)
(* the byte offset of that backslash.                                       *)
C1_TrailingBackslashOffset ==
    (/\ Done
     /\ this # <<>>
     /\ this[Len(this)] = Backslash
     /\ \A k \in 1..Len(calls) : calls[k].res # "Err" /\ calls[k].after < Len(this))
        => result = Err(ByteOffset(this, Len(this) - 1))

(* C2: when the handler answers Fail, the call fails with the byte offset   *)
(* of the backslash that started the escape, however far the handler moved  *)
(* the cursor and whatever precedes the escape.                             *)
C2_FailReportsBackslashOffset ==
    \A k \in 1..Len(calls) :
        calls[k].res = "Err"
            => /\ k = Len(calls)
               /\ StartsAtBackslash(k)
               /\ result.kind = "Err"
               /\ result.index = ByteOffset(this, calls[k].iter - 2)

\* a handler that took chars from the cursor fails after a multi-byte char
C2_Witness ==
    /\ result.kind = "Err"
    /\ calls # <<>>
    /\ calls[Len(calls)].res = "Err"
    /\ calls[Len(calls)].after > calls[Len(calls)].iter
    /\ result.index > calls[Len(calls)].iter - 2

(* C3: under DefaultHandler `\x` succeeds exactly when two hex digits       *)
(* follow; it then yields the char of their base-16 value and takes those   *)
(* two chars; otherwise it fails.                                           *)
C3_HexTwoDigits ==
    \A k \in 1..Len(calls) :
        (Default(k) /\ calls[k].chr = LowerX)
            => LET p == calls[k].iter
                   two == /\ p + 2 <= Len(this)
                          /\ IsHex(this[p + 1])
                          /\ IsHex(this[p + 2])
               IN  IF two
                   THEN /\ calls[k].res = "Some"
                        /\ calls[k].c = 16 * HexVal(this[p + 1]) + HexVal(this[p + 2])
                        /\ calls[k].after = p + 2
                   ELSE calls[k].res = "Err" /\ result.kind = "Err"

(* C4: under DefaultHandler `\u` is accepted only as {H..H} with one hex    *)
(* digit or more, or as HHHH; on success the value is that of the digits    *)
(* and the scan resumes after the `}` or the fourth digit.                  *)
C4_UnicodeShapes ==
    \A k \in 1..Len(calls) :
        (Default(k) /\ calls[k].chr = LowerU /\ calls[k].res = "Some")
            => LET p == calls[k].iter
               IN  \/ /\ BraceShape(p)
                      /\ calls[k].c = HexValue(Significant(BraceDigits(p)))
                      /\ calls[k].after = p + Len(BraceDigits(p)) + 2
                   \/ /\ FourShape(p)
                      /\ calls[k].c = HexValue(FourDigits(p))
                      /\ calls[k].after = p + 4

(* C5: an input without a backslash succeeds as Borrowed, its content the   *)
(* whole input, and the handler is never called.                            *)
C5_NoBackslashBorrowed ==
    ~HasBackslash(this)
        => /\ calls = <<>>
           /\ ~owned.some
           /\ result.kind \in {"running", "Borrowed"}
           /\ Done => result = Ok("Borrowed", this)

\* an input of several chars, one of them multi-byte, came back Borrowed
C5_Witness ==
    /\ result.kind = "Borrowed"
    /\ handler = "any"
    /\ Len(this) >= 3
    /\ StrLen(this) > Len(this)

(* C6: under DefaultHandler a `\u` escape of well-formed digits whose value *)
(* is a surrogate, above 0x10FFFF or too large for 32 bits fails with the   *)
(* backslash's byte offset.                                                 *)
C6_NonScalarFails ==
    \A k \in 1..Len(calls) :
        (Default(k) /\ calls[k].chr = LowerU)
            => LET p == calls[k].iter
               IN  (\/ BraceShape(p) /\ NonScalar(BraceDigits(p))
                    \/ FourShape(p) /\ NonScalar(FourDigits(p)))
                       => /\ calls[k].res = "Err"
                          /\ result = Err(ByteOffset(this, p - 2))

\* a brace form of nine significant digits, too large for 32 bits, has failed
C6_Witness ==
    /\ result.kind = "Err"
    /\ Default(1)
    /\ calls[1].chr = LowerU
    /\ BraceShape(calls[1].iter)
    /\ Len(Significant(BraceDigits(calls[1].iter))) >= 9

(* C7: under DefaultHandler an octal trigger always succeeds: it takes the  *)
(* one or two octal digits that follow, if any, yields the char of the      *)
(* base-8 value of the run, and leaves the rest to the scanner.             *)
C7_OctalRun ==
    \A k \in 1..Len(calls) :
        (Default(k) /\ IsOct(calls[k].chr))
            => LET p == calls[k].iter
                   d1 == p + 1 <= Len(this) /\ IsOct(this[p + 1])
                   d2 == d1 /\ p + 2 <= Len(this) /\ IsOct(this[p + 2])
                   first == calls[k].chr - 48
               IN  /\ calls[k].res = "Some"
                   /\ calls[k].after = IF d2 THEN p + 2 ELSE IF d1 THEN p + 1 ELSE p
                   /\ calls[k].c =
                         IF d2 THEN 64 * first + 8 * (this[p + 1] - 48) + (this[p + 2] - 48)
                         ELSE IF d1 THEN 8 * first + (this[p + 1] - 48)
                         ELSE first

\* a run of three digits with a fourth octal digit after it was decoded
C7_Witness ==
    /\ Default(1)
    /\ calls[1].after = calls[1].iter + 2
    /\ calls[1].c > 255
    /\ Len(this) > calls[1].after
    /\ IsOct(this[calls[1].after + 1])
    /\ result.kind = "Owned"

\* the output of a successful scan from char position p on, call k being the
\* next one: ok says that the calls are those of the escapes met on the way
RECURSIVE Walk(_, _)
Walk(p, k) ==
    IF p >= Len(this) THEN [ok |-> k = Len(calls) + 1, out |-> <<>>]
    ELSE IF this[p + 1] # Backslash
    THEN LET rest == Walk(p + 1, k)
         IN  [ok |-> rest.ok, out |-> <<this[p + 1]>> \o rest.out]
    ELSE IF k > Len(calls) \/ p + 2 > Len(this) THEN [ok |-> FALSE, out |-> <<>>]
    ELSE LET call == calls[k]
             rest == Walk(call.after, k + 1)
         IN  [ok |-> /\ rest.ok
                     /\ call.iter = p + 2
                     /\ StartsAtBackslash(k)
                     /\ call.after >= call.iter
                     /\ call.res # "Err",
              out |-> (IF call.res = "Some" THEN <<call.c>> ELSE <<>>) \o rest.out]

(* C8: on success the output is the input with each escape (backslash,      *)
(* trigger and what the handler took from the cursor) replaced by the       *)
(* handler's char or by nothing, the rest unchanged; the handler is called  *)
(* once per escape, with the backslash's offset, the trigger and the cursor *)
(* after the trigger.                                                       *)
C8_OutputIsInputWithEscapesResolved ==
    Succeeded => Walk(0, 1).ok /\ result.str = Walk(0, 1).out

\* two escapes, one replaced and one deleted, the handler having taken chars
C8_Witness ==
    /\ Succeeded
    /\ Len(calls) = 2
    /\ calls[1].res = "Some"
    /\ calls[2].res = "None"
    /\ calls[1].after > calls[1].iter

\* what the spec's table gives for the triggers that stand for one char
TableChar(chr) ==
    CASE chr = 97 -> 7
      [] chr = 98 -> 8
      [] chr = 116 -> 9
      [] chr = 110 -> 10
      [] chr = 118 -> 11
      [] chr = 102 -> 12
      [] chr = 114 -> 13
      [] chr = 101 -> 27
      [] chr \in {39, 34, 96, 92} -> chr
      [] OTHER -> -1

(* C9: DefaultHandler turns a b t n v f r e into 07 08 09 0A 0B 0C 0D 1B    *)
(* and ' " ` \ into themselves, leaving the cursor alone; it fails for a    *)
(* trigger that is none of these, nor x, nor u, nor an octal digit.         *)
C9_SimpleEscapes ==
    \A k \in 1..Len(calls) :
        Default(k)
            => /\ TableChar(calls[k].chr) >= 0
                   => /\ calls[k].res = "Some"
                      /\ calls[k].c = TableChar(calls[k].chr)
                      /\ calls[k].after = calls[k].iter
               /\ (/\ TableChar(calls[k].chr) < 0
                   /\ calls[k].chr \notin {LowerX, LowerU}
                   /\ ~IsOct(calls[k].chr))
                   => calls[k].res = "Err"

\* `\e` was resolved with a char after it, which the scanner then copied
C9_Witness ==
    /\ Default(1)
    /\ calls[1].chr = 101
    /\ result = Ok("Owned", <<233, 27, 48>>)

(* C10: once the scanner has met a backslash the result cannot be Borrowed: *)
(* a successful result is Borrowed exactly when the input has no backslash. *)
C10_BorrowedIffNoBackslash ==
    /\ owned.some => result.kind # "Borrowed"
    /\ Succeeded => (result.kind = "Borrowed" <=> ~HasBackslash(this))

\* every escape was deleted and the result is Owned
C10_Witness ==
    /\ result.kind = "Owned"
    /\ Len(calls) = 2
    /\ \A k \in 1..Len(calls) : calls[k].res = "None"

====
